---- MODULE Spec2Model ----
(***************************************************************************)
(* Jira-API-Extractor: the pagination engine (utils.paginate_request), the *)
(* extraction client built on it (jira_api.JiraAPIClient) and the epic     *)
(* progress aggregator (progress_data_aggregator.calculate_epic_progress). *)
(*                                                                         *)
(* Spec      one extraction call against a server that answers each        *)
(*           request with a page, or fails it.                             *)
(* SpecEpic  calculate_epic_progress and calculate_sprint_composition      *)
(*           applied to every bounded issue list.                          *)
(* SpecPoints  get_story_points and the aggregators applied to one issue   *)
(*           with both story-point fields.                                 *)
(* SpecSprints  get_issue_sprints applied to one sprint reference          *)
(*           delivered in each shape of the sprint field.                  *)
(* SpecStamps  the timezone-offset fix, the parse and the date filter that *)
(*           get_all_worklogs_in_date_range applies to one worklog.        *)
(* SpecComments  the fix, the UTC conversion and the window test that      *)
(*           get_comments_in_date_range applies to one comment.            *)
(* SpecAdf   parse_adf_to_text applied to documents and to other values.   *)
(* SpecMain  the command-line orchestrator main of main.py.                *)
(* SpecBatch the batch loop of get_all_worklogs_in_date_range on id lists  *)
(*           longer than one batch.                                        *)
(* SpecHeartbeat  concurrent executions of start_heartbeat_thread_once of   *)
(*           streamlit_app.py.                                             *)
(* SpecPaginate  one call of paginate_request against a server that        *)
(*           answers every request, under weak fairness of the loop.       *)
(***************************************************************************)
EXTENDS Integers, Sequences, FiniteSets, TLC

(***************************************************************************)
(* Bounds of the model and constants of the program.                       *)
(***************************************************************************)
\* the server holds at most MaxPages full pages (plus one item)
MaxPages == 2
\* number of distinct issues the worklogs of the server belong to
NumIssues == 2
\* page size requested by paginate_request
max_results == 100
\* a page length a server that caps the page size below the request returns
ServerCap == 50
\* calculate_epic_progress is applied to lists of at most MaxIssues issues
MaxIssues == 3
\* whose story points, when present, are 0..MaxPoints
MaxPoints == 1
MaxIds == 2001

\* the value of an absent field (Python None / missing key)
None == "None"
\* the 'total' of a response that carries none
NoTotal == -1
\* the value of an absent story-points field
NoPoints == -1

Min(a, b) == IF a < b THEN a ELSE b

\* the items s+1 .. s+n of the server's result list, as one page
Page(s, n) == [k \in 1..n |-> s + k]

(***************************************************************************)
(* The server: the number of items behind the paginated endpoint, the      *)
(* envelope of its responses, whether they carry 'total', and which of     *)
(* its records carry a timestamp inside the requested window.              *)
(***************************************************************************)
DataSizes ==
    UNION {{k * max_results, k * max_results + 1, k * max_results + ServerCap,
            k * max_results + (max_results - 1)} : k \in 0..(MaxPages - 1)}
    \cup {MaxPages * max_results, MaxPages * max_results + 1}

Envelopes == {"issues", "values", "list"}
Windows == {"all", "odd", "none"}
Operations == {"sprint", "worklogs", "comments"}

VARIABLES
    srvCount,            \* items the server holds behind the paginated endpoint
    srvEnvelope,         \* "issues" | "values" | "list" (bare list)
    srvHasTotal,         \* the responses carry a 'total'
    srvWindow,           \* which records are dated inside the window
    op,                  \* the extraction operation of this run
    pc,                  \* position of the operation
    result,              \* what the operation returned to the orchestrator
    all_results,         \* paginate_request: items accumulated
    start_at,            \* paginate_request: offset of the next request
    reqLog,              \* paginate_request: the requests issued by this call
    returned,            \* paginate_request: what it returned to its caller
    failures,            \* phases in which a request of this run failed
    fallbackRan,         \* _get_worklogs_fallback was entered
    ids,                 \* worklog ids collected by phase 1
    batch_i,             \* start index of the next batch of ids
    all_worklogs_raw,    \* worklog bodies fetched so far
    filtered_worklogs,   \* worklogs that passed the date filter
    todo_issue_ids,      \* unique_issue_ids not yet visited by the loop
    issue_details_cache, \* issue ids resolved to an issue of the project
    issue_sprint_cache,  \* issue id -> sprint label
    issueRequests,       \* issue id -> number of issue-detail requests
    sprintRequests,      \* issue id -> number of sprint lookups
    issue_project,       \* issue id -> project key the server answered
    issues,              \* calculate_epic_progress: the input list
    epic_pc,             \* aggregator: "input" | "done" | "composed"
    epic_result,         \* calculate_epic_progress: the returned list
    comp_result,         \* calculate_sprint_composition: the returned list
    fn_input,            \* the argument of the function under examination
    fn_pc,               \* "idle" | "input" | "done"
    fn_output            \* what the function under examination returned

srvVars == <<srvCount, srvEnvelope, srvHasTotal, srvWindow>>
pgVars == <<all_results, start_at, reqLog, returned>>
wlVars == <<ids, batch_i, all_worklogs_raw, filtered_worklogs, todo_issue_ids,
            issue_details_cache, issue_sprint_cache, issueRequests,
            sprintRequests>>
opVars == <<op, pc, result, failures, fallbackRan, issue_project>>
epicVars == <<issues, epic_pc, epic_result, comp_result>>
fnVars == <<fn_input, fn_pc, fn_output>>
vars == <<srvVars, pgVars, wlVars, opVars, epicVars, fnVars>>

(***************************************************************************)
(* The server's records.  Item k of the worklog endpoints is the worklog   *)
(* with id k; it belongs to issue IssueOf(k).  The search endpoint of the  *)
(* fallback holds the issues 1..NumIssues, each embedding its worklogs.    *)
(***************************************************************************)
IssueIds == 1..NumIssues
IssueOf(w) == ((w - 1) % NumIssues) + 1

\* the record's timestamp lies inside [start_date, end_date]
InWindow(k) ==
    CASE srvWindow = "all" -> TRUE
      [] srvWindow = "odd" -> k % 2 = 1
      [] OTHER -> FALSE

\* issue.get('fields', {}).get('worklog', {}).get('worklogs', [])
EmbeddedWorklogs(issue) ==
    SelectSeq(Page(0, srvCount), LAMBDA w : IssueOf(w) = issue)

\* the set of elements of a sequence
Elems(s) == {s[k] : k \in DOMAIN s}

ListResult(items) == [kind |-> "list", items |-> items]
ErrorResult == [kind |-> "error", items |-> <<>>]
NoResult == [kind |-> "none", items |-> <<>>]

NoCache == [i \in IssueIds |-> None]
NoRequests == [i \in IssueIds |-> 0]

(***************************************************************************)
(* paginate_request                                                        *)
(***************************************************************************)
\* the number of items behind the endpoint the current call paginates
EndpointCount == IF pc = "fb_paginate" THEN NumIssues ELSE srvCount

\* the page lengths the server may answer a request at offset s with: at
\* most the requested size and at most what remains, possibly empty
PageLens(s) ==
    LET avail == IF s >= EndpointCount THEN 0 ELSE EndpointCount - s
    IN  {n \in {0, 1, ServerCap, max_results - 1, max_results, avail} :
            n <= Min(avail, max_results)}

\* the 'total' field of a response (NoTotal when the response has none)
ResponseTotal ==
    IF srvHasTotal /\ srvEnvelope # "list" THEN EndpointCount ELSE NoTotal

\* total as paginate_request computes it from a response holding n results
Total(n) ==
    IF srvEnvelope = "list" THEN n
    ELSE IF ResponseTotal = NoTotal THEN 0 ELSE ResponseTotal

\* PaginateStops with the comparison against total off by one
PaginateStopsOffByOne(n) == n < max_results \/ start_at + n > Total(n)

\* the break condition of the loop after a page of n results
\* the loop condition without the short-page test
PaginateStopsOnTotalOnly(n) == start_at + n >= Total(n)

PaginateStops(n) == n < max_results \/ start_at + n >= Total(n)

\* the name under which a failed request of the current position is recorded
Phase ==
    CASE pc = "paginate" -> "paginate"
      [] pc = "fb_paginate" -> "fb_paginate"
      [] pc = "batch" -> "batch"
      [] pc = "issues" -> "issue"
      [] OTHER -> "none"

(***************************************************************************)
(* The callers of paginate_request: what each does with the list r that    *)
(* paginate_request returned, up to its next request or its return.        *)
(***************************************************************************)
\* get_issues_in_sprint: return issues
SprintContinue(r) ==
    /\ result' = ListResult(r)
    /\ pc' = "done"
    /\ UNCHANGED <<wlVars, fallbackRan>>

\* get_comments_in_date_range: keep the comments created inside the window
CommentsContinue(r) ==
    /\ result' = ListResult(SelectSeq(r, InWindow))
    /\ pc' = "done"
    /\ UNCHANGED <<wlVars, fallbackRan>>

\* get_all_worklogs_in_date_range after phase 1: collect the ids
WorklogsContinue(r) ==
    /\ UNCHANGED <<fallbackRan, all_worklogs_raw, filtered_worklogs,
                   todo_issue_ids, issue_details_cache, issue_sprint_cache,
                   issueRequests, sprintRequests>>
    /\ IF r = <<>>
       THEN /\ result' = ListResult(<<>>)
            /\ pc' = "done"
            /\ UNCHANGED <<ids, batch_i>>
       ELSE /\ ids' = r
            /\ batch_i' = 0
            /\ pc' = "batch"
            /\ UNCHANGED result

RECURSIVE FlattenWorklogs(_)
\* the (issue, worklog) pairs of the fetched issues whose worklog is dated
\* inside the window, in the order of the two nested loops
FlattenWorklogs(r) ==
    IF r = <<>> THEN <<>>
    ELSE LET issue == Head(r)
             mine == SelectSeq(EmbeddedWorklogs(issue), InWindow)
         IN  [k \in 1..Len(mine) |-> mine[k]] \o FlattenWorklogs(Tail(r))

\* _get_worklogs_fallback after its search: filter, then the sprint lookups
FallbackContinue(r) ==
    LET filtered == FlattenWorklogs(r)
    IN  /\ UNCHANGED <<fallbackRan, ids, batch_i, all_worklogs_raw,
                       issue_details_cache, issueRequests, sprintRequests>>
        /\ IF filtered = <<>>
           THEN /\ result' = ListResult(<<>>)
                /\ pc' = "done"
                /\ UNCHANGED <<filtered_worklogs, todo_issue_ids,
                               issue_sprint_cache>>
           ELSE /\ filtered_worklogs' = filtered
                /\ todo_issue_ids' = {IssueOf(w) : w \in Elems(filtered)}
                /\ issue_sprint_cache' = NoCache
                /\ pc' = "fb_sprints"
                /\ UNCHANGED result

Continue(r) ==
    CASE pc = "fb_paginate" -> FallbackContinue(r)
      [] op = "sprint" -> SprintContinue(r)
      [] op = "comments" -> CommentsContinue(r)
      [] OTHER -> WorklogsContinue(r)

\* one iteration of the loop whose request is answered with a page
PaginateOk ==
    /\ pc \in {"paginate", "fb_paginate"}
    /\ \E n \in PageLens(start_at) :
         LET results == Page(start_at, n)
             entry == [offset |-> start_at, have |-> Len(all_results),
                       ok |-> TRUE, n |-> n, total |-> ResponseTotal]
         IN  /\ reqLog' = Append(reqLog, entry)
             /\ all_results' = all_results \o results
             /\ UNCHANGED <<op, failures, issue_project>>
             /\ IF PaginateStops(n)
                THEN /\ UNCHANGED start_at
                     /\ returned' = ListResult(all_results \o results)
                     /\ Continue(all_results \o results)
                ELSE /\ start_at' = start_at + n
                     /\ UNCHANGED <<pc, result, returned, fallbackRan,
                                    wlVars>>
    /\ UNCHANGED <<srvVars, epicVars, fnVars>>

\* one iteration whose request fails (transport error or non-2xx status):
\* the except clause prints, breaks, and the list so far is returned
PaginateFail ==
    /\ pc \in {"paginate", "fb_paginate"}
    /\ reqLog' = Append(reqLog, [offset |-> start_at,
                                 have |-> Len(all_results), ok |-> FALSE,
                                 n |-> 0, total |-> NoTotal])
    /\ failures' = failures \cup {Phase}
    /\ UNCHANGED <<all_results, start_at, op, issue_project>>
    /\ returned' = ListResult(all_results)
    /\ Continue(all_results)
    /\ UNCHANGED <<srvVars, epicVars, fnVars>>

(***************************************************************************)
(* get_all_worklogs_in_date_range after phase 1                            *)
(***************************************************************************)
batch_size == 1000

\* the except clause of get_all_worklogs_in_date_range: run the fallback
EnterFallback ==
    /\ fallbackRan' = TRUE
    /\ pc' = "fb_paginate"
    /\ all_results' = <<>>
    /\ start_at' = 0
    /\ reqLog' = <<>>
    /\ returned' = NoResult
    /\ UNCHANGED <<result, ids, batch_i, all_worklogs_raw, filtered_worklogs,
                   todo_issue_ids, issue_details_cache, issue_sprint_cache>>

\* slices that run one id into the next batch
BatchOverlapping(i) == SubSeq(ids, i + 1, Min(i + batch_size + 1, Len(ids)))

\* ids[i:i + batch_size]
Batch(i) == SubSeq(ids, i + 1, Min(i + batch_size, Len(ids)))

\* after the last batch: filter by date, collect the unique issue ids
FilterWorklogs(raw) ==
    LET filtered == SelectSeq(raw, InWindow)
    IN  /\ UNCHANGED <<pgVars, fallbackRan, ids, issue_sprint_cache>>
        /\ IF filtered = <<>>
           THEN /\ result' = ListResult(<<>>)
                /\ pc' = "done"
                /\ UNCHANGED <<filtered_worklogs, todo_issue_ids,
                               issue_details_cache>>
           ELSE /\ filtered_worklogs' = filtered
                /\ todo_issue_ids' = {IssueOf(w) : w \in Elems(filtered)}
                /\ issue_details_cache' = {}
                /\ pc' = "issues"
                /\ UNCHANGED result

\* one batch request answered with the worklog bodies
BatchOk ==
    /\ pc = "batch"
    /\ LET raw == all_worklogs_raw \o Batch(batch_i)
       IN  /\ all_worklogs_raw' = raw
           /\ batch_i' = batch_i + batch_size
           /\ IF batch_i + batch_size < Len(ids)
              THEN UNCHANGED <<pc, result, pgVars,
                               fallbackRan, ids, filtered_worklogs,
                               todo_issue_ids, issue_details_cache,
                               issue_sprint_cache>>
              ELSE FilterWorklogs(raw)
    /\ UNCHANGED <<op, failures, issueRequests, sprintRequests,
                   issue_project, srvVars,
                   epicVars, fnVars>>

\* one batch request fails: session.post or raise_for_status raises
BatchFail ==
    /\ pc = "batch"
    /\ failures' = failures \cup {Phase}
    /\ EnterFallback
    /\ UNCHANGED <<op, issueRequests, sprintRequests, issue_project, srvVars,
                   epicVars, fnVars>>

\* Step 3: the records of the worklogs whose issue is in the cache
BuildWorklogs(cache) ==
    SelectSeq(filtered_worklogs, LAMBDA w : IssueOf(w) \in cache)

\* after the visit of issue_id: next issue, or build the list and return
\* the loop without the set of unique ids: an issue is asked for again for
\* each of its filtered worklogs
IssueLoopNextPerWorklog(issue_id, cache) ==
    LET mine == {k \in DOMAIN filtered_worklogs :
                   IssueOf(filtered_worklogs[k]) = issue_id}
        left == IF issueRequests[issue_id] + 1 >= Cardinality(mine)
                THEN todo_issue_ids \ {issue_id} ELSE todo_issue_ids
    IN  /\ todo_issue_ids' = left
        /\ issue_details_cache' = cache
        /\ IF left = {}
           THEN /\ result' = ListResult(BuildWorklogs(cache))
                /\ pc' = "done"
           ELSE UNCHANGED <<pc, result>>
        /\ UNCHANGED <<pgVars, fallbackRan, ids, batch_i, all_worklogs_raw,
                       filtered_worklogs>>

IssueLoopNext(issue_id, cache) ==
    /\ todo_issue_ids' = todo_issue_ids \ {issue_id}
    /\ issue_details_cache' = cache
    /\ IF todo_issue_ids \ {issue_id} = {}
       THEN /\ result' = ListResult(BuildWorklogs(cache))
            /\ pc' = "done"
       ELSE UNCHANGED <<pc, result>>
    /\ UNCHANGED <<pgVars, fallbackRan, ids, batch_i, all_worklogs_raw,
                   filtered_worklogs>>

\* the project key argument of the call, and the keys the server answers in
\* fields.project.key
project_key == "Proj"
ProjectKeys == {"proj", "OTHER"}

\* str.upper()
Upper(key) == IF key \in {"PROJ", "Proj", "proj"} THEN "PROJ" ELSE key

\* every issue counts as one of the target project
InAnyProject(issue_project_key) == TRUE

\* if issue_project.upper() == project_key.upper()
InTargetProject(issue_project_key) ==
    Upper(issue_project_key) = Upper(project_key)

\* for issue_id in unique_issue_ids: the loop takes the issues in one order;
\* no step depends on which, so the ids are taken in ascending order
NextIssueIds == {i \in todo_issue_ids : \A j \in todo_issue_ids : i <= j}

SprintOutcomes == {"found", "empty"}
Label(outcome) == IF outcome = "found" THEN "sprints" ELSE "N/A"

\* the issue-detail request answered 200 by an issue of the target project,
\* followed by the sprint lookup get_issue_sprints (which never raises)
IssueInProject ==
    /\ pc = "issues"
    /\ \E issue_id \in NextIssueIds, outcome \in SprintOutcomes,
          key \in ProjectKeys :
         /\ InTargetProject(key)
         /\ issue_project' = [issue_project EXCEPT ![issue_id] = key]
         /\ issueRequests' = [issueRequests EXCEPT ![issue_id] = @ + 1]
         /\ sprintRequests' = [sprintRequests EXCEPT ![issue_id] = @ + 1]
         /\ issue_sprint_cache' =
                [issue_sprint_cache EXCEPT ![issue_id] = Label(outcome)]
         /\ IssueLoopNext(issue_id, issue_details_cache \cup {issue_id})
    /\ UNCHANGED <<op, failures, srvVars, epicVars, fnVars>>

\* the issue-detail request answered 200 by an issue of another project
IssueOtherProject ==
    /\ pc = "issues"
    /\ \E issue_id \in NextIssueIds, key \in ProjectKeys :
         /\ ~InTargetProject(key)
         /\ issue_project' = [issue_project EXCEPT ![issue_id] = key]
         /\ issueRequests' = [issueRequests EXCEPT ![issue_id] = @ + 1]
         /\ IssueLoopNext(issue_id, issue_details_cache)
    /\ UNCHANGED <<op, failures, sprintRequests, issue_sprint_cache, srvVars,
                   epicVars, fnVars>>

\* the issue-detail request answered with a status other than 200
IssueNot200 ==
    /\ pc = "issues"
    /\ \E issue_id \in NextIssueIds :
         /\ issueRequests' = [issueRequests EXCEPT ![issue_id] = @ + 1]
         /\ IssueLoopNext(issue_id, issue_details_cache)
    /\ failures' = failures \cup {"issue_status"}
    /\ UNCHANGED <<op, sprintRequests, issue_sprint_cache, issue_project,
                   srvVars, epicVars, fnVars>>

\* the issue-detail request raises (transport error)
IssueFail ==
    /\ pc = "issues"
    /\ \E issue_id \in NextIssueIds :
         issueRequests' = [issueRequests EXCEPT ![issue_id] = @ + 1]
    /\ failures' = failures \cup {Phase}
    /\ EnterFallback
    /\ UNCHANGED <<op, sprintRequests, issue_project, srvVars, epicVars,
                   fnVars>>

(***************************************************************************)
(* _get_worklogs_fallback after its search                                 *)
(***************************************************************************)
\* one sprint lookup of Step 2; after the last, Step 3 builds the list
FallbackSprint ==
    /\ pc = "fb_sprints"
    /\ \E issue_key \in NextIssueIds, outcome \in SprintOutcomes :
         /\ sprintRequests' = [sprintRequests EXCEPT ![issue_key] = @ + 1]
         /\ issue_sprint_cache' =
                [issue_sprint_cache EXCEPT ![issue_key] = Label(outcome)]
         /\ todo_issue_ids' = todo_issue_ids \ {issue_key}
         /\ IF todo_issue_ids \ {issue_key} = {}
            THEN /\ result' = ListResult(filtered_worklogs)
                 /\ pc' = "done"
            ELSE UNCHANGED <<pc, result>>
    /\ UNCHANGED <<op, failures, fallbackRan, issue_project, pgVars, ids,
                   batch_i,
                   all_worklogs_raw, filtered_worklogs, issue_details_cache,
                   issueRequests, srvVars, epicVars, fnVars>>

(***************************************************************************)
(* Specification of one extraction call                                    *)
(***************************************************************************)
EpicIdle ==
    /\ issues = <<>>
    /\ epic_pc = "idle"
    /\ epic_result = <<>>
    /\ comp_result = <<>>

\* no function is under examination
FnIdle ==
    /\ fn_input = <<>>
    /\ fn_pc = "idle"
    /\ fn_output = <<>>

Init ==
    /\ srvCount \in DataSizes
    /\ srvEnvelope \in Envelopes
    /\ srvHasTotal \in BOOLEAN
    /\ srvWindow \in Windows
    /\ op \in Operations
    /\ pc = "paginate"
    /\ result = NoResult
    /\ all_results = <<>>
    /\ start_at = 0
    /\ reqLog = <<>>
    /\ returned = NoResult
    /\ failures = {}
    /\ fallbackRan = FALSE
    /\ ids = <<>>
    /\ batch_i = 0
    /\ all_worklogs_raw = <<>>
    /\ filtered_worklogs = <<>>
    /\ todo_issue_ids = {}
    /\ issue_details_cache = {}
    /\ issue_sprint_cache = NoCache
    /\ issueRequests = NoRequests
    /\ sprintRequests = NoRequests
    /\ issue_project = NoCache
    /\ EpicIdle
    /\ FnIdle

Next ==
    \/ PaginateOk
    \/ PaginateFail
    \/ BatchOk
    \/ BatchFail
    \/ IssueInProject
    \/ IssueOtherProject
    \/ IssueNot200
    \/ IssueFail
    \/ FallbackSprint

Spec == Init /\ [][Next]_vars

(***************************************************************************)
(* progress_data_aggregator.calculate_epic_progress                        *)
(*                                                                         *)
(* An issue is its parent epic key (None: no parent), the value of its     *)
(* story-points field (NoPoints: absent) and the name of its status        *)
(* category.  A percentage done / total * 100 is kept as the exact         *)
(* fraction num / den, compared by cross-multiplication.                   *)
(***************************************************************************)
EpicKeys == {"EPIC-A"}
\* every name other than Done and In Progress takes the branch of To Do
Categories == {"Done", "In Progress", "To Do"}
IssueRecords ==
    [parent : EpicKeys \cup {None},
     points : (0..MaxPoints) \cup {NoPoints},
     category : Categories]

\* epic_key of an issue: the parent's key, or the sentinel
EpicKeyOf(issue) == IF issue.parent = None THEN "No Epic" ELSE issue.parent

\* story_points of an issue, an absent value coerced to 0
StoryPointsOf(issue) == IF issue.points = NoPoints THEN 0 ELSE issue.points

\* the entry a first-seen epic key gets; the parent carries no summary, so
\* the name defaults to the key, which truncate_epic_name leaves unchanged
NewEpic(epic_key) ==
    [epic_key |-> epic_key, epic_name |-> epic_key, done_points |-> 0,
     in_progress_points |-> 0, to_do_points |-> 0, total_points |-> 0]

\* position of epic_key in the insertion-ordered dict epic_data, 0 if absent
IndexOfEpic(epic_data, epic_key) ==
    IF \E k \in DOMAIN epic_data : epic_data[k].epic_key = epic_key
    THEN CHOOSE k \in DOMAIN epic_data : epic_data[k].epic_key = epic_key
    ELSE 0

\* AddPoints adding the story points to total_points twice
AddPointsTwice(epic, status_category, story_points) ==
    LET bucketed ==
          IF status_category = "Done"
          THEN [epic EXCEPT !.done_points = @ + story_points]
          ELSE IF status_category = "In Progress"
          THEN [epic EXCEPT !.in_progress_points = @ + story_points]
          ELSE [epic EXCEPT !.to_do_points = @ + story_points]
    IN  [bucketed EXCEPT !.total_points = @ + story_points + story_points]

\* AddPoints with the addition to total_points inside the last branch
AddPointsTotalInElse(epic, status_category, story_points) ==
    IF status_category = "Done"
    THEN [epic EXCEPT !.done_points = @ + story_points]
    ELSE IF status_category = "In Progress"
    THEN [epic EXCEPT !.in_progress_points = @ + story_points]
    ELSE [epic EXCEPT !.to_do_points = @ + story_points,
                      !.total_points = @ + story_points]

\* aggregate by status category, then add to the total
AddPoints(epic, status_category, story_points) ==
    LET bucketed ==
          IF status_category = "Done"
          THEN [epic EXCEPT !.done_points = @ + story_points]
          ELSE IF status_category = "In Progress"
          THEN [epic EXCEPT !.in_progress_points = @ + story_points]
          ELSE [epic EXCEPT !.to_do_points = @ + story_points]
    IN  [bucketed EXCEPT !.total_points = @ + story_points]

\* one iteration of the loop over the issues
AddIssue(epic_data, issue) ==
    LET epic_key == EpicKeyOf(issue)
        present == IndexOfEpic(epic_data, epic_key) # 0
        data == IF present THEN epic_data
                ELSE Append(epic_data, NewEpic(epic_key))
        k == IndexOfEpic(data, epic_key)
    IN  [data EXCEPT ![k] = AddPoints(@, issue.category, StoryPointsOf(issue))]

RECURSIVE Aggregate(_, _)
\* the loop over the issues, from the dict epic_data
Aggregate(issue_list, epic_data) ==
    IF issue_list = <<>> THEN epic_data
    ELSE Aggregate(Tail(issue_list), AddIssue(epic_data, Head(issue_list)))

\* KeepEpic without the exclusion of the epics of 0 story points
KeepEpicAny(epic) == epic.total_points >= 0

\* the filter of the second loop
KeepEpic(epic) == epic.total_points > 0

\* Percentage as the plain ratio done / total
PercentageUnscaled(epic) ==
    IF epic.total_points > 0
    THEN [num |-> epic.done_points, den |-> epic.total_points]
    ELSE [num |-> 0, den |-> 1]

\* done / total * 100, and 0 for a total of 0
Percentage(epic) ==
    IF epic.total_points > 0
    THEN [num |-> epic.done_points * 100, den |-> epic.total_points]
    ELSE [num |-> 0, den |-> 1]

\* p >= q for percentages
PctGeq(p, q) == p.num * q.den >= q.num * p.den

\* the epic entry with its percentage set
WithPercentage(epic) ==
    [epic_key |-> epic.epic_key, epic_name |-> epic.epic_name,
     done_points |-> epic.done_points,
     in_progress_points |-> epic.in_progress_points,
     to_do_points |-> epic.to_do_points, total_points |-> epic.total_points,
     percentage |-> Percentage(epic)]

\* the second loop: the kept epics, in dict order, with their percentage
FilterEpics(epic_data) ==
    LET kept == SelectSeq(epic_data, KeepEpic)
    IN  [k \in 1..Len(kept) |-> WithPercentage(kept[k])]

\* x put into the descending list sorted, after the entries not below it
InsertDescending(sorted, x) ==
    LET before == SelectSeq(sorted, LAMBDA y : PctGeq(y.percentage, x.percentage))
        after == SelectSeq(sorted, LAMBDA y : ~PctGeq(y.percentage, x.percentage))
    IN  before \o <<x>> \o after

RECURSIVE SortAscending(_)
\* SortByPercentage without reverse=True
SortAscending(records) ==
    IF records = <<>> THEN <<>>
    ELSE LET x == records[Len(records)]
             sorted == SortAscending(SubSeq(records, 1, Len(records) - 1))
         IN  SelectSeq(sorted, LAMBDA y : PctGeq(x.percentage, y.percentage))
             \o <<x>>
             \o SelectSeq(sorted, LAMBDA y : ~PctGeq(x.percentage, y.percentage))

RECURSIVE SortByPercentage(_)
\* result.sort(key=percentage, reverse=True): stable, highest first
SortByPercentage(records) ==
    IF records = <<>> THEN <<>>
    ELSE InsertDescending(
             SortByPercentage(SubSeq(records, 1, Len(records) - 1)),
             records[Len(records)])

calculate_epic_progress(issue_list) ==
    SortByPercentage(FilterEpics(Aggregate(issue_list, <<>>)))

\* the call of calculate_epic_progress on the input list
CalculateEpicProgress ==
    /\ epic_pc = "input"
    /\ epic_result' = calculate_epic_progress(issues)
    /\ epic_pc' = "done"
    /\ UNCHANGED <<issues, comp_result, srvVars, pgVars, wlVars, opVars,
                   fnVars>>

(***************************************************************************)
(* progress_data_aggregator.calculate_sprint_composition                   *)
(***************************************************************************)
\* the entry a first-seen epic key gets in epic_totals
NewEpicTotal(epic_key) ==
    [epic_key |-> epic_key, epic_name |-> epic_key, total_points |-> 0]

\* one iteration of the loop: the issue's points added to its epic's total
AddIssueTotal(epic_totals, issue) ==
    LET epic_key == EpicKeyOf(issue)
        present == IndexOfEpic(epic_totals, epic_key) # 0
        data == IF present THEN epic_totals
                ELSE Append(epic_totals, NewEpicTotal(epic_key))
        k == IndexOfEpic(data, epic_key)
    IN  [data EXCEPT ![k].total_points = @ + StoryPointsOf(issue)]

RECURSIVE AggregateTotals(_, _)
\* epic_totals after the loop over the issues
AggregateTotals(issue_list, epic_totals) ==
    IF issue_list = <<>> THEN epic_totals
    ELSE AggregateTotals(Tail(issue_list),
                         AddIssueTotal(epic_totals, Head(issue_list)))

RECURSIVE SprintTotal(_)
\* sprint_total after the loop over the issues
SprintTotal(issue_list) ==
    IF issue_list = <<>> THEN 0
    ELSE SprintTotal(SubSeq(issue_list, 1, Len(issue_list) - 1))
         + StoryPointsOf(issue_list[Len(issue_list)])

\* SharePercentage taken of the number of epics instead of the sprint total
SharePercentageOfEpics(epic, sprint_total, n_epics) ==
    IF sprint_total > 0
    THEN [num |-> epic.total_points * 100, den |-> n_epics]
    ELSE [num |-> 0, den |-> 1]

\* total_points / sprint_total * 100, and 0 for a sprint total of 0
SharePercentage(epic, sprint_total, n_epics) ==
    IF sprint_total > 0
    THEN [num |-> epic.total_points * 100, den |-> sprint_total]
    ELSE [num |-> 0, den |-> 1]

\* CompositionOrder listing the epics last seen first
CompositionReversed(records) ==
    [k \in 1..Len(records) |-> records[Len(records) + 1 - k]]

\* the order of the returned list: that of epic_totals.values(), unsorted
CompositionOrder(records) == records

calculate_sprint_composition(issue_list) ==
    LET epic_totals == AggregateTotals(issue_list, <<>>)
        sprint_total == SprintTotal(issue_list)
        kept == SelectSeq(epic_totals, KeepEpic)
    IN  CompositionOrder(
          [k \in 1..Len(kept) |->
             [epic_key |-> kept[k].epic_key, epic_name |-> kept[k].epic_name,
              total_points |-> kept[k].total_points,
              percentage |->
                SharePercentage(kept[k], sprint_total, Len(epic_totals))]])

\* the call of calculate_sprint_composition on the input list
CalculateSprintComposition ==
    /\ epic_pc = "input"
    /\ comp_result' = calculate_sprint_composition(issues)
    /\ epic_pc' = "composed"
    /\ UNCHANGED <<issues, epic_result, srvVars, pgVars, wlVars, opVars,
                   fnVars>>

\* no extraction call runs while the aggregator is examined
ClientIdle ==
    /\ srvCount = 0
    /\ srvEnvelope = "issues"
    /\ srvHasTotal = TRUE
    /\ srvWindow = "all"
    /\ op = "sprint"
    /\ pc = "idle"
    /\ result = NoResult
    /\ all_results = <<>>
    /\ start_at = 0
    /\ reqLog = <<>>
    /\ returned = NoResult
    /\ failures = {}
    /\ fallbackRan = FALSE
    /\ ids = <<>>
    /\ batch_i = 0
    /\ all_worklogs_raw = <<>>
    /\ filtered_worklogs = <<>>
    /\ todo_issue_ids = {}
    /\ issue_details_cache = {}
    /\ issue_sprint_cache = NoCache
    /\ issueRequests = NoRequests
    /\ sprintRequests = NoRequests
    /\ issue_project = NoCache

\* the sprint of the end-to-end scenario: Epic A with two issues of 5
\* points, Done and In Progress, and Epic B with one issue of 0 points
ScenarioIssues ==
    << [parent |-> "EPIC-A", points |-> 5, category |-> "Done"],
       [parent |-> "EPIC-A", points |-> 5, category |-> "In Progress"],
       [parent |-> "EPIC-B", points |-> 0, category |-> "To Do"] >>

InitEpic ==
    /\ \/ \E n \in 0..MaxIssues : issues \in [1..n -> IssueRecords]
       \/ issues = ScenarioIssues
    /\ epic_pc = "input"
    /\ epic_result = <<>>
    /\ comp_result = <<>>
    /\ ClientIdle
    /\ FnIdle

NextEpic ==
    \/ CalculateEpicProgress
    \/ CalculateSprintComposition

SpecEpic == InitEpic /\ [][NextEpic]_vars

(***************************************************************************)
(* config.get_story_points, and the story points the aggregators add for   *)
(* one issue.  The issue carries both custom fields: points is the value   *)
(* of JIRA_STORY_POINTS_FIELD, estimate that of                            *)
(* JIRA_STORY_POINTS_ESTIMATE_FIELD (NoPoints: absent).                    *)
(***************************************************************************)
IssueFields ==
    [parent : EpicKeys \cup {None},
     points : (0..MaxPoints) \cup {NoPoints},
     estimate : (0..MaxPoints) \cup {NoPoints},
     category : Categories]

\* float(value) if value else 0: the number itself, 0 for a falsy value
FloatOrZero(value) == IF value # 0 THEN value ELSE 0

\* get_story_points taking the estimate field when both are present
get_story_points_estimate_first(issue_fields) ==
    LET sp_field == issue_fields.points
        sp_estimate_field == issue_fields.estimate
    IN  IF sp_field = NoPoints /\ sp_estimate_field = NoPoints THEN 0
        ELSE IF sp_estimate_field # NoPoints
        THEN FloatOrZero(sp_estimate_field)
        ELSE FloatOrZero(sp_field)

get_story_points(issue_fields) ==
    LET sp_field == issue_fields.points
        sp_estimate_field == issue_fields.estimate
    IN  IF sp_field = NoPoints /\ sp_estimate_field = NoPoints THEN 0
        ELSE IF sp_field # NoPoints /\ sp_estimate_field # NoPoints
        THEN FloatOrZero(sp_field)
        ELSE FloatOrZero(IF sp_field # NoPoints THEN sp_field
                         ELSE sp_estimate_field)

\* the call get_story_points(issue['fields'])
GetStoryPoints ==
    /\ fn_pc = "input"
    /\ fn_output' = [fn |-> "get_story_points",
                     value |-> get_story_points(fn_input)]
    /\ fn_pc' = "done"
    /\ UNCHANGED <<fn_input, srvVars, pgVars, wlVars, opVars, epicVars>>

\* the two aggregators run on the list of this one issue: the story points
\* each adds to the issue's epic
AggregateOneIssue ==
    /\ fn_pc = "input"
    /\ fn_output' =
         [fn |-> "aggregate",
          progress |-> Aggregate(<<fn_input>>, <<>>)[1].total_points,
          composition |-> AggregateTotals(<<fn_input>>, <<>>)[1].total_points]
    /\ fn_pc' = "done"
    /\ UNCHANGED <<fn_input, srvVars, pgVars, wlVars, opVars, epicVars>>

InitPoints ==
    /\ fn_input \in IssueFields
    /\ fn_pc = "input"
    /\ fn_output = <<>>
    /\ ClientIdle
    /\ EpicIdle

NextPoints ==
    \/ GetStoryPoints
    \/ AggregateOneIssue

SpecPoints == InitPoints /\ [][NextPoints]_vars

(***************************************************************************)
(* JiraAPIClient.get_issue_sprints.  Text is a sequence of one-character   *)
(* strings.  A sprint reference is the data the server holds (id, name,    *)
(* state and which of the three it has); the issue's sprint field carries  *)
(* it as a list of objects, one object, one string or a list of strings.   *)
(***************************************************************************)
MaxSprintId == 10

Unknown == <<"U", "n", "k", "n", "o", "w", "n">>

SprintNames ==
    {<<"S", "p", "r", "i", "n", "t", " ", "X">>,
     <<"Q", "1", ",", " ", "A">>}

SprintStates == {<<"a", "c", "t", "i", "v", "e">>}

SprintKeys == {"id", "name", "state"}

Shapes == {"list_of_dicts", "single_dict", "string", "list_of_strings"}

Responses == {"200", "not200", "exception"}

SprintRefs ==
    [id : 0..MaxSprintId, name : SprintNames, state : SprintStates,
     present : SUBSET SprintKeys]

Digits == {"0", "1", "2", "3", "4", "5", "6", "7", "8", "9"}

Digit(n) == <<"0", "1", "2", "3", "4", "5", "6", "7", "8", "9">>[n + 1]

RECURSIVE Decimal(_)
\* the decimal text of a non-negative integer
Decimal(n) ==
    IF n < 10 THEN <<Digit(n)>>
    ELSE Append(Decimal(n \div 10), Digit(n % 10))

\* the values of an id: a JSON number (int) or matched text (str)
IntValue(n) == [t |-> "int", v |-> Decimal(n)]
StrValue(text) == [t |-> "str", v |-> text]

\* server side: the object form of a reference
DictOf(ref) ==
    [type |-> "dict", keys |-> ref.present,
     id |-> ref.id, name |-> ref.name, state |-> ref.state]

\* server side: the string form 'id=5,name=Sprint X,state=active', a
\* missing field leaving its key=value part out
StringOf(ref) ==
    LET id_part == IF "id" \in ref.present
                   THEN <<"i", "d", "=">> \o Decimal(ref.id) ELSE <<>>
        name_part == IF "name" \in ref.present
                     THEN <<"n", "a", "m", "e", "=">> \o ref.name ELSE <<>>
        state_part == IF "state" \in ref.present
                      THEN <<"s", "t", "a", "t", "e", "=">> \o ref.state
                      ELSE <<>>
        Sep(a, b) == IF a # <<>> /\ b # <<>> THEN a \o <<",">> \o b
                     ELSE a \o b
    IN  [type |-> "str", chars |-> Sep(Sep(id_part, name_part), state_part)]

FieldValue(ref, shape) ==
    CASE shape = "list_of_dicts" -> [type |-> "list", items |-> <<DictOf(ref)>>]
      [] shape = "single_dict" -> DictOf(ref)
      [] shape = "string" -> StringOf(ref)
      [] shape = "list_of_strings" ->
            [type |-> "list", items |-> <<StringOf(ref)>>]

\* the text has the literal at position p
MatchAt(text, p, literal) ==
    /\ p + Len(literal) - 1 <= Len(text)
    /\ \A k \in 1..Len(literal) : text[p + k - 1] = literal[k]

\* 'literal' in text
Contains(text, literal) == \E p \in 1..Len(text) : MatchAt(text, p, literal)

\* a character class: the listed characters, or all but the listed ones
InClass(c, class) == IF class.negated THEN c \notin class.chars
                     ELSE c \in class.chars

DigitClass == [negated |-> FALSE, chars |-> Digits]
ValueClass == [negated |-> TRUE, chars |-> {",", "]"}]

RECURSIVE RunEnd(_, _, _)
\* the last position of the longest run of class characters from p on
RunEnd(text, p, class) ==
    IF p + 1 <= Len(text) /\ InClass(text[p + 1], class)
    THEN RunEnd(text, p + 1, class) ELSE p

\* re.search(literal + '(class+)', text): the group of the leftmost match,
\* or <<>> when there is no match
Search(text, literal, class) ==
    LET starts == {p \in 1..Len(text) :
                     /\ MatchAt(text, p, literal)
                     /\ p + Len(literal) <= Len(text)
                     /\ InClass(text[p + Len(literal)], class)}
    IN  IF starts = {} THEN <<>>
        ELSE LET p == CHOOSE q \in starts : \A r \in starts : q <= r
             IN  SubSeq(text, p + Len(literal),
                        RunEnd(text, p + Len(literal), class))

\* bool(value) of a field value or list item
Truthy(value) ==
    CASE value.type = "list" -> Len(value.items) > 0
      [] value.type = "dict" -> value.keys # {}
      [] value.type = "str" -> Len(value.chars) > 0

LooksLikeSprintString(value) ==
    \/ Contains(value.chars, <<"i", "d", "=">>)
    \/ Contains(value.chars, <<"n", "a", "m", "e", "=">>)

\* the sprint_field found by the shape sniffing, <<>> when none is found
SprintField(field_value) ==
    IF ~Truthy(field_value) THEN <<>>
    ELSE CASE field_value.type = "list" ->
                LET first_item == field_value.items[1]
                IN  IF \/ first_item.type = "dict" /\ "id" \in first_item.keys
                       \/ first_item.type = "str"
                            /\ LooksLikeSprintString(first_item)
                    THEN field_value.items ELSE <<>>
           [] field_value.type = "dict" ->
                IF "id" \in field_value.keys THEN <<field_value>> ELSE <<>>
           [] field_value.type = "str" ->
                IF LooksLikeSprintString(field_value) THEN <<field_value>>
                ELSE <<>>

OrUnknown(group) == IF group = <<>> THEN Unknown ELSE group

\* the sprint_info built from one item of the sprint field
SprintInfo(sprint_data) ==
    IF sprint_data.type = "dict"
    THEN [id |-> IF "id" \in sprint_data.keys THEN IntValue(sprint_data.id)
                 ELSE StrValue(Unknown),
          name |-> IF "name" \in sprint_data.keys THEN sprint_data.name
                   ELSE Unknown,
          state |-> IF "state" \in sprint_data.keys THEN sprint_data.state
                    ELSE Unknown]
    ELSE LET sprint_str == sprint_data.chars
         IN  [id |-> StrValue(OrUnknown(
                       Search(sprint_str, <<"i", "d", "=">>, DigitClass))),
              name |-> OrUnknown(
                       Search(sprint_str, <<"n", "a", "m", "e", "=">>,
                              ValueClass)),
              state |-> OrUnknown(
                       Search(sprint_str, <<"s", "t", "a", "t", "e", "=">>,
                              ValueClass))]

\* the record is kept whatever its id
HasAnyId(sprint_info) == TRUE

\* if sprint_info.get('id') != 'Unknown'
HasKnownId(sprint_info) == sprint_info.id # StrValue(Unknown)

RECURSIVE SprintInfoList(_)
SprintInfoList(sprint_field) ==
    IF sprint_field = <<>> THEN <<>>
    ELSE LET sprint_data == Head(sprint_field)
             rest == SprintInfoList(Tail(sprint_field))
         IN  IF Truthy(sprint_data) /\ HasKnownId(SprintInfo(sprint_data))
             THEN <<SprintInfo(sprint_data)>> \o rest
             ELSE rest

get_issue_sprints(response, field_value) ==
    IF response # "200" THEN <<>>
    ELSE SprintInfoList(SprintField(field_value))

\* one call of get_issue_sprints for an issue whose sprint field holds the
\* reference in the given shape
GetIssueSprints ==
    /\ fn_pc = "input"
    /\ fn_output' = get_issue_sprints(fn_input.response,
                                      FieldValue(fn_input.ref, fn_input.shape))
    /\ fn_pc' = "done"
    /\ UNCHANGED <<fn_input, srvVars, pgVars, wlVars, opVars, epicVars>>

InitSprints ==
    /\ fn_input \in [ref : SprintRefs, shape : Shapes, response : Responses]
    /\ fn_pc = "input"
    /\ fn_output = <<>>
    /\ ClientIdle
    /\ EpicIdle

NextSprints == GetIssueSprints

SpecSprints == InitSprints /\ [][NextSprints]_vars

(***************************************************************************)
(* The start timestamp of one worklog: the timezone-offset fix, the parse  *)
(* and the date filter of get_all_worklogs_in_date_range.  The server      *)
(* writes a timestamp as YYYY-MM-DDTHH:MM:SS[.mmm](+|-)HH[:]MM; the client *)
(* sees only the text.                                                     *)
(***************************************************************************)
MaxStampLen == 5

\* worklog_started_str[-3] needs three characters
MinFixLen == 3

StampChars == {":", "0", "5", "+"}

Dates == {<<2024, 3, 31>>, <<2024, 4, 1>>, <<2024, 4, 30>>, <<2024, 5, 1>>}

Hours == {0, 23}

Offsets == {[sign |-> "-", hh |-> 8, mm |-> 0],
            [sign |-> "+", hh |-> 0, mm |-> 0],
            [sign |-> "+", hh |-> 5, mm |-> 30]}

Stamps ==
    [date : Dates, hour : Hours, offset : Offsets,
     millis : BOOLEAN, colon : BOOLEAN]

TwoDigits(n) == <<Digit(n \div 10), Digit(n % 10)>>

FourDigits(n) ==
    <<Digit(n \div 1000), Digit((n \div 100) % 10)>> \o TwoDigits(n % 100)

\* a date as '%Y-%m-%d'
DateText(date) ==
    FourDigits(date[1]) \o <<"-">> \o TwoDigits(date[2]) \o <<"-">>
        \o TwoDigits(date[3])

\* server side: the text of a timestamp
StampText(stamp) ==
    DateText(stamp.date) \o <<"T">> \o TwoDigits(stamp.hour)
        \o <<":", "5", "9", ":", "5", "9">>
        \o (IF stamp.millis THEN <<".", "0", "0", "0">> ELSE <<>>)
        \o <<stamp.offset.sign>> \o TwoDigits(stamp.offset.hh)
        \o (IF stamp.colon THEN <<":">> ELSE <<>>)
        \o TwoDigits(stamp.offset.mm)

ExampleNoColon ==
    <<"2", "0", "2", "4", "-", "0", "1", "-", "1", "5", "T", "1", "0", ":",
      "0", "0", ":", "0", "0", "+", "0", "5", "0", "0">>

ExampleColon ==
    <<"2", "0", "2", "4", "-", "0", "1", "-", "1", "5", "T", "1", "0", ":",
      "0", "0", ":", "0", "0", "+", "0", "5", ":", "0", "0">>

\* a colon inserted before the last two characters whatever stands there
FixTimezoneAlways(str) ==
    SubSeq(str, 1, Len(str) - 2) \o <<":">>
        \o SubSeq(str, Len(str) - 1, Len(str))

\* if s[-3] != ':': s = s[:-2] + ':' + s[-2:]
FixTimezone(str) ==
    IF str[Len(str) - 2] # ":"
    THEN SubSeq(str, 1, Len(str) - 2) \o <<":">>
             \o SubSeq(str, Len(str) - 1, Len(str))
    ELSE str

DigitValue(c) == CHOOSE n \in 0..9 : Digit(n) = c

RECURSIVE Number(_)
\* int() of a text of digits
Number(text) ==
    IF text = <<>> THEN 0
    ELSE Number(SubSeq(text, 1, Len(text) - 1)) * 10
            + DigitValue(text[Len(text)])

AllDigits(text, from, to) == \A k \in from..to : text[k] \in Digits

\* the offset part (+|-)HH:MM
IsOffset(text) ==
    /\ Len(text) = 6
    /\ text[1] \in {"+", "-"}
    /\ AllDigits(text, 2, 3)
    /\ text[4] = ":"
    /\ AllDigits(text, 5, 6)

\* what follows the seconds: fraction and offset
AfterSeconds(str) ==
    IF Len(str) >= 23 /\ str[20] = "." /\ AllDigits(str, 21, 23)
    THEN SubSeq(str, 24, Len(str))
    ELSE SubSeq(str, 20, Len(str))

\* datetime.fromisoformat accepts the text
IsIsoFormat(str) ==
    /\ Len(str) >= 19
    /\ AllDigits(str, 1, 4) /\ str[5] = "-"
    /\ AllDigits(str, 6, 7) /\ str[8] = "-"
    /\ AllDigits(str, 9, 10)
    /\ AllDigits(str, 12, 13) /\ str[14] = ":"
    /\ AllDigits(str, 15, 16) /\ str[17] = ":"
    /\ AllDigits(str, 18, 19)
    /\ Number(SubSeq(str, 6, 7)) \in 1..12
    /\ Number(SubSeq(str, 9, 10)) \in 1..31
    /\ Number(SubSeq(str, 12, 13)) \in 0..23
    /\ AfterSeconds(str) = <<>> \/ IsOffset(AfterSeconds(str))

\* the date written in the text
DateOf(str) ==
    <<Number(SubSeq(str, 1, 4)), Number(SubSeq(str, 6, 7)),
      Number(SubSeq(str, 9, 10))>>

DaysInMonth(year, month) ==
    IF month = 2 THEN (IF year % 4 = 0 THEN 29 ELSE 28)
    ELSE IF month \in {4, 6, 9, 11} THEN 30 ELSE 31

NextDay(date) ==
    IF date[3] < DaysInMonth(date[1], date[2])
    THEN <<date[1], date[2], date[3] + 1>>
    ELSE IF date[2] < 12 THEN <<date[1], date[2] + 1, 1>>
    ELSE <<date[1] + 1, 1, 1>>

PrevDay(date) ==
    IF date[3] > 1 THEN <<date[1], date[2], date[3] - 1>>
    ELSE IF date[2] > 1
    THEN <<date[1], date[2] - 1, DaysInMonth(date[1], date[2] - 1)>>
    ELSE <<date[1] - 1, 12, 31>>

\* the date of the instant read in UTC
DateInUtc(str) ==
    LET offset == AfterSeconds(str)
        minutes == Number(SubSeq(str, 12, 13)) * 60
                      + Number(SubSeq(str, 15, 16))
        shift == IF offset = <<>> THEN 0
                 ELSE (IF offset[1] = "-" THEN -1 ELSE 1)
                        * (Number(SubSeq(offset, 2, 3)) * 60
                             + Number(SubSeq(offset, 5, 6)))
        utc == minutes - shift
    IN  IF utc < 0 THEN PrevDay(DateOf(str))
        ELSE IF utc >= 24 * 60 THEN NextDay(DateOf(str))
        ELSE DateOf(str)

\* datetime.fromisoformat(s).astimezone(timezone.utc).date()
WorklogDateUtc(str) == DateInUtc(str)

\* datetime.fromisoformat(s).date()
WorklogDate(str) == DateOf(str)

\* a <= b for dates
DateLeq(a, b) ==
    \/ a[1] < b[1]
    \/ a[1] = b[1] /\ a[2] < b[2]
    \/ a[1] = b[1] /\ a[2] = b[2] /\ a[3] <= b[3]

\* the two bodies that filter a worklog: get_all_worklogs_in_date_range and
\* _get_worklogs_fallback
Paths == {"primary", "fallback"}

\* the exceptions of class requests.exceptions.RequestException
RequestExceptions == {"ConnectionError", "HTTPError", "Timeout"}

\* what becomes of an exception raised inside the try block: the clause
\* `except requests.exceptions.RequestException` handles it (the primary
\* path by running the fallback, the fallback by returning {'error': ...}),
\* any other exception leaves the method
ExceptClause(path, exception) ==
    IF exception \in RequestExceptions
    THEN (IF path = "primary" THEN "fallback" ELSE "error_value")
    ELSE "uncaught"

NoOutcome == [raised |-> None, worklog_started_str |-> <<>>,
              kept |-> FALSE, startedDate |-> <<>>, outcome |-> "continues"]

Raise(exception) ==
    [NoOutcome EXCEPT !.raised = exception,
                      !.outcome = ExceptClause(fn_input.path, exception)]

\* the primary path tests `if worklog_started_str:` before the fix, the
\* fallback does not
Guarded(path) == path = "primary"

\* the fix on the worklog's 'started' text, <<>> standing for a worklog
\* without one (None): the primary path skips such a worklog, the fallback
\* indexes it
FixStarted ==
    /\ fn_pc = "input"
    /\ LET str == fn_input.started
       IN  IF str = <<>> /\ Guarded(fn_input.path)
           THEN /\ fn_output' = NoOutcome
                /\ fn_pc' = "done"
           ELSE IF str = <<>>
           THEN /\ fn_output' = Raise("TypeError")
                /\ fn_pc' = "done"
           ELSE IF Len(str) < MinFixLen
           THEN /\ fn_output' = Raise("IndexError")
                /\ fn_pc' = "done"
           ELSE /\ fn_output' = [NoOutcome EXCEPT
                                   !.worklog_started_str = FixTimezone(str)]
                /\ fn_pc' = "fixed"
    /\ UNCHANGED <<fn_input, srvVars, pgVars, wlVars, opVars, epicVars>>

\* the parse of the fixed text, the date comparison and the startedDate
FilterByDate ==
    /\ fn_pc = "fixed"
    /\ LET str == fn_output.worklog_started_str
       IN  IF ~IsIsoFormat(str)
           THEN fn_output' = [Raise("ValueError") EXCEPT
                                 !.worklog_started_str = str]
           ELSE LET worklog_date == WorklogDate(str)
                    start_date_obj == DateOf(fn_input.start_date)
                    end_date_obj == DateOf(fn_input.end_date)
                IN  fn_output' =
                      [fn_output EXCEPT
                         !.kept = /\ DateLeq(start_date_obj, worklog_date)
                                  /\ DateLeq(worklog_date, end_date_obj),
                         !.startedDate = DateText(worklog_date)]
    /\ fn_pc' = "done"
    /\ UNCHANGED <<fn_input, srvVars, pgVars, wlVars, opVars, epicVars>>

\* the --start_date / --end_date pairs, start not after end
DateWindows == {w \in Dates \X Dates : DateLeq(w[1], w[2])}

InitStamps ==
    /\ \/ \E stamp \in Stamps, w \in DateWindows, path \in Paths :
             fn_input = [path |-> path,
                         stamp |-> <<stamp>>,
                         started |-> StampText(stamp),
                         start_date |-> DateText(w[1]),
                         end_date |-> DateText(w[2])]
       \/ \E n \in 0..MaxStampLen, str \in {ExampleNoColon, ExampleColon} :
             \E text \in [1..n -> StampChars] \cup {str}, path \in Paths :
                fn_input = [path |-> path,
                            stamp |-> <<>>,
                            started |-> text,
                            start_date |-> DateText(<<2024, 4, 1>>),
                            end_date |-> DateText(<<2024, 4, 30>>)]
    /\ fn_pc = "input"
    /\ fn_output = <<>>
    /\ ClientIdle
    /\ EpicIdle

NextStamps ==
    \/ FixStarted
    \/ FilterByDate

SpecStamps == InitStamps /\ [][NextStamps]_vars

(***************************************************************************)
(* get_comments_in_date_range: the creation timestamp of one comment of a  *)
(* fetched issue.  An instant is <<date, minute of the day, second>>.      *)
(***************************************************************************)
MinutesOf(str) ==
    Number(SubSeq(str, 12, 13)) * 60 + Number(SubSeq(str, 15, 16))

\* the utcoffset of the parsed text in minutes, 0 when it has none
OffsetMinutes(str) ==
    LET offset == AfterSeconds(str)
    IN  IF offset = <<>> THEN 0
        ELSE (IF offset[1] = "-" THEN -1 ELSE 1)
               * (Number(SubSeq(offset, 2, 3)) * 60
                    + Number(SubSeq(offset, 5, 6)))

\* datetime.fromisoformat(s) read as if its clock time were UTC
CommentInstantLocal(str) ==
    <<DateOf(str), MinutesOf(str), Number(SubSeq(str, 18, 19))>>

\* datetime.fromisoformat(s).astimezone(timezone.utc)
CommentInstant(str) ==
    LET utc == MinutesOf(str) - OffsetMinutes(str)
        second == Number(SubSeq(str, 18, 19))
    IN  IF utc < 0 THEN <<PrevDay(DateOf(str)), utc + 24 * 60, second>>
        ELSE IF utc >= 24 * 60
        THEN <<NextDay(DateOf(str)), utc - 24 * 60, second>>
        ELSE <<DateOf(str), utc, second>>

\* a <= b for instants
InstantLeq(a, b) ==
    \/ a[1] # b[1] /\ DateLeq(a[1], b[1])
    \/ a[1] = b[1] /\ a[2] < b[2]
    \/ a[1] = b[1] /\ a[2] = b[2] /\ a[3] <= b[3]

\* strptime(start_date).replace(tzinfo=utc)
StartOfWindow(start_date) == <<DateOf(start_date), 0, 0>>

\* strptime(end_date).replace(hour=23, minute=59, second=59, tzinfo=utc)
EndOfWindow(end_date) == <<DateOf(end_date), 23 * 60 + 59, 59>>

\* the body of the loop over an issue's comments for one comment
FilterComment ==
    /\ fn_pc = "input"
    /\ LET comment_created_str == fn_input.created
       IN  IF comment_created_str = <<>>
           THEN fn_output' = [kept |-> FALSE, comment_date |-> <<>>]
           ELSE LET comment_date ==
                        CommentInstant(FixTimezone(comment_created_str))
                IN  fn_output' =
                      [kept |-> /\ InstantLeq(StartOfWindow(fn_input.start_date),
                                              comment_date)
                                /\ InstantLeq(comment_date,
                                              EndOfWindow(fn_input.end_date)),
                       comment_date |-> comment_date]
    /\ fn_pc' = "done"
    /\ UNCHANGED <<fn_input, srvVars, pgVars, wlVars, opVars, epicVars>>

InitComments ==
    /\ \E w \in DateWindows :
          \/ \E stamp \in Stamps :
                fn_input = [stamp |-> <<stamp>>,
                            created |-> StampText(stamp),
                            start_date |-> DateText(w[1]),
                            end_date |-> DateText(w[2])]
          \/ fn_input = [stamp |-> <<>>,
                         created |-> <<>>,
                         start_date |-> DateText(w[1]),
                         end_date |-> DateText(w[2])]
    /\ fn_pc = "input"
    /\ fn_output = <<>>
    /\ ClientIdle
    /\ EpicIdle

NextComments == FilterComment

SpecComments == InitComments /\ [][NextComments]_vars

(***************************************************************************)
(* utils.parse_adf_to_text.  A value is a document (a dict with 'content': *)
(* a list of blocks, each with a type and a list of inline items), a dict  *)
(* without 'content', a plain string or None.                              *)
(***************************************************************************)
MaxBlocks == 2

ItemTypes == {"text", "mention"}
BlockTypes == {"paragraph", "heading"}
Texts == {<<"a">>, <<"b", "c">>}

Items == [type : ItemTypes, text : Texts]

\* the content of a block: up to two inline items
ItemLists ==
    {<<>>} \cup {<<i>> : i \in Items} \cup {<<i, j>> : i, j \in Items}

Blocks == [type : BlockTypes, content : ItemLists]

NoneText == <<"N", "o", "n", "e">>
EmptyDictText == <<"{", "}">>

\* str(adf) of a value that is not a document
Str(adf) ==
    CASE adf.kind = "str" -> adf.chars
      [] adf.kind = "None" -> NoneText
      [] adf.kind = "dict" -> EmptyDictText

RECURSIVE Join(_, _)
\* sep.join(texts)
Join(texts, sep) ==
    IF texts = <<>> THEN <<>>
    ELSE IF Len(texts) = 1 THEN texts[1]
    ELSE texts[1] \o sep \o Join(Tail(texts), sep)

RECURSIVE ItemTexts(_)
\* the texts appended for the items of one block
ItemTexts(items) ==
    IF items = <<>> THEN <<>>
    ELSE (IF Head(items).type = "text" THEN <<Head(items).text>> ELSE <<>>)
            \o ItemTexts(Tail(items))

\* a block contributes whatever its type
BlockTextsAnyType(blk) == ItemTexts(blk.content)

\* if block.get('type') == 'paragraph'
BlockTexts(blk) ==
    IF blk.type = "paragraph" THEN ItemTexts(blk.content) ELSE <<>>

RECURSIVE TextContent(_)
TextContent(content) ==
    IF content = <<>> THEN <<>>
    ELSE BlockTexts(Head(content)) \o TextContent(Tail(content))

parse_adf_to_text(adf) ==
    IF adf.kind # "doc" THEN Str(adf)
    ELSE Join(TextContent(adf.content), <<" ">>)

ParseAdfToText ==
    /\ fn_pc = "input"
    /\ fn_output' = parse_adf_to_text(fn_input)
    /\ fn_pc' = "done"
    /\ UNCHANGED <<fn_input, srvVars, pgVars, wlVars, opVars, epicVars>>

InitAdf ==
    /\ \/ \E n \in 0..MaxBlocks : \E content \in [1..n -> Blocks] :
             fn_input = [kind |-> "doc", content |-> content]
       \/ \E chars \in Texts \cup {<<>>, <<"a", " ", "b">>} :
             fn_input = [kind |-> "str", chars |-> chars]
       \/ fn_input = [kind |-> "None"]
       \/ fn_input = [kind |-> "dict"]
    /\ fn_pc = "input"
    /\ fn_output = <<>>
    /\ ClientIdle
    /\ EpicIdle

NextAdf == ParseAdfToText

SpecAdf == InitAdf /\ [][NextAdf]_vars

(***************************************************************************)
(* main.main, the command-line orchestrator.  fn_input holds the arguments *)
(* and the credentials found in the environment, fn_pc the position in     *)
(* main, fn_output what the run has done so far.                           *)
(***************************************************************************)
Credentials == {"JIRA_API_URL", "JIRA_API_TOKEN", "JIRA_USER_EMAIL"}

\* the values of --start_date / --end_date: not given, two dates, and a
\* text that is no date
DateArgs == {"", "2024-04-01", "2024-04-30", "2024-13-45"}

Categories3 == <<"issues", "worklogs", "comments">>

NotFetched == "not fetched"

MainStart ==
    [requests |-> <<>>, network |-> <<>>, issues |-> NotFetched,
     worklogs |-> NotFetched, comments |-> NotFetched,
     printed |-> <<>>, raised |-> None, saved |-> FALSE]

\* what a fetch function of main.py can return or raise: with JIRA_API_URL
\* unset the URL 'None/rest/...' makes requests raise MissingSchema, a
\* RequestException, before anything is sent; strptime raises ValueError
\* when a worklog or comment is compared with a date that is no date
FetchOutcomes(category) ==
    IF "JIRA_API_URL" \notin fn_input.credentials THEN {"error"}
    ELSE {"list", "error"}
            \cup (IF /\ category # "issues"
                     /\ "2024-13-45" \in {fn_input.start_date,
                                          fn_input.end_date}
                  THEN {"ValueError"} ELSE {})

\* one fetch call of main and the test of its result
Fetch(category, outcome, next_pc) ==
    LET called == [fn_output EXCEPT
                     !.requests = Append(@, category),
                     !.network =
                        IF "JIRA_API_URL" \in fn_input.credentials
                        THEN Append(@, category) ELSE @]
    IN  CASE outcome = "list" ->
               /\ fn_output' = [called EXCEPT ![category] = "list"]
               /\ fn_pc' = next_pc
          [] outcome = "error" ->
               /\ fn_output' = [called EXCEPT
                                  ![category] = "error",
                                  !.printed = Append(@, category)]
               /\ fn_pc' = "returned"
          [] outcome = "ValueError" ->
               /\ fn_output' = [called EXCEPT !.raised = "ValueError"]
               /\ fn_pc' = "returned"

\* parse_args and the test that both dates or none are given
CheckDatePair ==
    /\ fn_pc = "start"
    /\ IF (fn_input.start_date # "") # (fn_input.end_date # "")
       THEN /\ fn_output' = [fn_output EXCEPT
                               !.printed = Append(@, "date pair")]
            /\ fn_pc' = "returned"
       ELSE /\ fn_pc' = "issues"
            /\ UNCHANGED fn_output
    /\ UNCHANGED <<fn_input, srvVars, pgVars, wlVars, opVars, epicVars>>

FetchIssues ==
    /\ fn_pc = "issues"
    /\ IF fn_input.sprint
       THEN \E outcome \in FetchOutcomes("issues") :
               Fetch("issues", outcome, "worklogs")
       ELSE /\ fn_pc' = "worklogs"
            /\ UNCHANGED fn_output
    /\ UNCHANGED <<fn_input, srvVars, pgVars, wlVars, opVars, epicVars>>

FetchWorklogs ==
    /\ fn_pc = "worklogs"
    /\ IF fn_input.start_date # "" /\ fn_input.end_date # ""
       THEN \E outcome \in FetchOutcomes("worklogs") :
               Fetch("worklogs", outcome, "comments")
       ELSE /\ fn_pc' = "save"
            /\ UNCHANGED fn_output
    /\ UNCHANGED <<fn_input, srvVars, pgVars, wlVars, opVars, epicVars>>

FetchComments ==
    /\ fn_pc = "comments"
    /\ \E outcome \in FetchOutcomes("comments") :
          Fetch("comments", outcome, "save")
    /\ UNCHANGED <<fn_input, srvVars, pgVars, wlVars, opVars, epicVars>>

\* save_to_excel and the report of its result
SaveToExcel ==
    /\ fn_pc = "save"
    /\ \E success \in BOOLEAN :
          fn_output' = [fn_output EXCEPT
                          !.saved = success,
                          !.printed = IF success THEN @
                                      ELSE Append(@, "saving")]
    /\ fn_pc' = "returned"
    /\ UNCHANGED <<fn_input, srvVars, pgVars, wlVars, opVars, epicVars>>

InitMain ==
    /\ fn_input \in [sprint : BOOLEAN, start_date : DateArgs,
                     end_date : DateArgs, credentials : SUBSET Credentials]
    /\ fn_pc = "start"
    /\ fn_output = MainStart
    /\ ClientIdle
    /\ EpicIdle

NextMain ==
    \/ CheckDatePair
    \/ FetchIssues
    \/ FetchWorklogs
    \/ FetchComments
    \/ SaveToExcel

SpecMain == InitMain /\ [][NextMain]_vars

(***************************************************************************)
(* The batch loop on its own: the call has collected the worklog ids       *)
(* 1..n, none of whose worklogs lies in the date window.                   *)
(***************************************************************************)
InitBatch ==
    /\ srvCount \in 1..MaxIds
    /\ srvEnvelope = "values"
    /\ srvHasTotal = TRUE
    /\ srvWindow = "none"
    /\ op = "worklogs"
    /\ pc = "batch"
    /\ result = NoResult
    /\ all_results = Page(0, srvCount)
    /\ start_at = 0
    /\ reqLog = <<>>
    /\ returned = ListResult(Page(0, srvCount))
    /\ failures = {}
    /\ fallbackRan = FALSE
    /\ ids = Page(0, srvCount)
    /\ batch_i = 0
    /\ all_worklogs_raw = <<>>
    /\ filtered_worklogs = <<>>
    /\ todo_issue_ids = {}
    /\ issue_details_cache = {}
    /\ issue_sprint_cache = NoCache
    /\ issueRequests = NoRequests
    /\ sprintRequests = NoRequests
    /\ issue_project = NoCache
    /\ EpicIdle
    /\ FnIdle

NextBatch ==
    \/ BatchOk
    \/ BatchFail

SpecBatch == InitBatch /\ [][NextBatch]_vars

(***************************************************************************)
(* One call of paginate_request (by get_issues_in_sprint) against a server *)
(* that answers every request.  The while loop runs on as long as it can:  *)
(* the process blocks on each call and is never suspended.                 *)
(***************************************************************************)
InitPaginate ==
    /\ Init
    /\ op = "sprint"
    /\ srvWindow = "all"

NextPaginate == PaginateOk

SpecPaginate ==
    InitPaginate /\ [][NextPaginate]_vars /\ WF_vars(NextPaginate)

(***************************************************************************)
(* streamlit_app.start_heartbeat_thread_once run by concurrent page loads. *)
(* fn_input is the number of page loads, fn_pc the position of each in the *)
(* function, fn_output the shared monitor file (whether it holds a time    *)
(* less than 15 seconds old) and the monitoring threads started.  The      *)
(* function takes no lock: the test of the file, the write and the thread  *)
(* start are separate steps.                                               *)
(***************************************************************************)
MaxLoads == 3

Loads == 1..fn_input

\* is_monitoring_thread_active(): the read of the monitor file
CheckMonitor(load) ==
    /\ fn_pc[load] = "check"
    /\ fn_pc' = [fn_pc EXCEPT ![load] = IF fn_output.monitor_recent
                                        THEN "skipped" ELSE "mark"]
    /\ UNCHANGED fn_output

\* mark_monitoring_active(): the write of the current time
MarkMonitor(load) ==
    /\ fn_pc[load] = "mark"
    /\ fn_output' = [fn_output EXCEPT !.monitor_recent = TRUE]
    /\ fn_pc' = [fn_pc EXCEPT ![load] = "start"]

\* threading.Thread(target=check_for_inactivity_simple).start()
StartThread(load) ==
    /\ fn_pc[load] = "start"
    /\ fn_output' = [fn_output EXCEPT !.threads = @ \cup {load}]
    /\ fn_pc' = [fn_pc EXCEPT ![load] = "started"]

CheckMonitorStep ==
    /\ \E load \in Loads : CheckMonitor(load)
    /\ UNCHANGED <<fn_input, srvVars, pgVars, wlVars, opVars, epicVars>>

MarkMonitorStep ==
    /\ \E load \in Loads : MarkMonitor(load)
    /\ UNCHANGED <<fn_input, srvVars, pgVars, wlVars, opVars, epicVars>>

StartThreadStep ==
    /\ \E load \in Loads : StartThread(load)
    /\ UNCHANGED <<fn_input, srvVars, pgVars, wlVars, opVars, epicVars>>

InitHeartbeat ==
    /\ fn_input \in 1..MaxLoads
    /\ fn_pc = [load \in 1..fn_input |-> "check"]
    /\ fn_output \in [monitor_recent : BOOLEAN, threads : {{}}]
    /\ ClientIdle
    /\ EpicIdle

NextHeartbeat ==
    \/ CheckMonitorStep
    \/ MarkMonitorStep
    \/ StartThreadStep

SpecHeartbeat == InitHeartbeat /\ [][NextHeartbeat]_vars

(***************************************************************************)
(* Properties of the pagination engine and of the extraction operations    *)
(***************************************************************************)
\* the request log of the current paginate_request call holds only answered
\* requests
AllAnswered == \A k \in DOMAIN reqLog : reqLog[k].ok

\* a request of this run failed and the worklog fallback did not make up
\* for it: no fallback ran, or the fallback's own request failed
Unrecovered ==
    IF fallbackRan THEN "fb_paginate" \in failures ELSE failures # {}

\* C1: when every page response is successful and reports the same total T,
\* paginate_request returns exactly the T items, in offset order, whatever
\* the page lengths.
C1_ReturnsExactlyTotal ==
    (/\ returned.kind = "list"
     /\ reqLog # <<>>
     /\ \A k \in DOMAIN reqLog : reqLog[k].ok /\ reqLog[k].total = EndpointCount)
        => returned.items = Page(0, EndpointCount)

\* C2: when a page request fails, paginate_request surfaces the failure: it
\* does not return the pages fetched so far as a list.
C2_FailureSurfaced ==
    (returned # NoResult /\ ~AllAnswered) => returned.kind # "list"

\* C3: an extraction operation in which a request failed, and was not made
\* up for by the worklog fallback, ends with the tagged error value.
C3_TaggedErrorOnFailure ==
    (pc = "done" /\ Unrecovered) => result = ErrorResult

\* C4: when the phase-1 request of get_all_worklogs_in_date_range fails, the
\* operation runs _get_worklogs_fallback and returns its result.
C4_Phase1FailureRunsFallback ==
    (op = "worklogs" /\ pc = "done" /\ "paginate" \in failures) => fallbackRan

\* C5: paginate_request issues no request once the items accumulated have
\* reached the total the server reported: every request after a response
\* with a total is sent with fewer items accumulated than that total, and
\* the loop is left as soon as the accumulated items reach the total (so no
\* trailing request follows a last page of exactly max_results items).
C5_NoRequestOnceTotalReached ==
    /\ \A k \in DOMAIN reqLog :
         (k > 1 /\ reqLog[k - 1].total # NoTotal)
            => reqLog[k].have < reqLog[k - 1].total
    /\ (/\ pc \in {"paginate", "fb_paginate"}
        /\ reqLog # <<>>
        /\ reqLog[Len(reqLog)].total # NoTotal)
          => Len(all_results) < reqLog[Len(reqLog)].total

\* C5 witness: two full pages of a server that reports total = 200; the
\* call returned after the second page without a third request.
C5_Witness ==
    /\ returned.kind = "list"
    /\ Len(reqLog) = 2
    /\ reqLog[1].n = max_results
    /\ reqLog[2].n = max_results
    /\ reqLog[2].total = 2 * max_results
    /\ Len(returned.items) = 2 * max_results

\* C6: when no response carries a total, paginate_request stops only at a
\* page shorter than the requested page size.
C6_NoTotalStopsAtShortPage ==
    (/\ returned.kind = "list"
     /\ reqLog # <<>>
     /\ \A k \in DOMAIN reqLog : reqLog[k].ok /\ reqLog[k].total = NoTotal)
        => reqLog[Len(reqLog)].n < max_results

(***************************************************************************)
(* Properties of calculate_epic_progress, stated on the input list         *)
(***************************************************************************)
\* the epic group an input issue belongs to
GroupOf(issue) == IF issue.parent = None THEN "No Epic" ELSE issue.parent

RECURSIVE SumPoints(_)
\* the story points of a list of issues, an absent value counted as 0
SumPoints(issue_list) ==
    IF issue_list = <<>> THEN 0
    ELSE (IF Head(issue_list).points = NoPoints THEN 0
          ELSE Head(issue_list).points) + SumPoints(Tail(issue_list))

\* the story points of the input issues of one epic group
GroupTotal(group) ==
    SumPoints(SelectSeq(issues, LAMBDA i : GroupOf(i) = group))

RECURSIVE SumTotals(_)
\* the sum of total_points over a list of records
SumTotals(records) ==
    IF records = <<>> THEN 0
    ELSE Head(records).total_points + SumTotals(Tail(records))

\* C7: story points are conserved: the total_points of the returned records
\* sum to the story points of the input issues whose epic group has a total
\* above 0, each record holds the points of the issues of its own group, and
\* no group is returned twice.
C7_PointsConserved ==
    epic_pc = "done" =>
      /\ SumTotals(epic_result) =
           SumPoints(SelectSeq(issues, LAMBDA i : GroupTotal(GroupOf(i)) > 0))
      /\ \A k \in DOMAIN epic_result :
           epic_result[k].total_points = GroupTotal(epic_result[k].epic_key)
      /\ \A j, k \in DOMAIN epic_result :
           j # k => epic_result[j].epic_key # epic_result[k].epic_key

\* C7 witness: the issues without a parent form a returned group of two
\* counted issues, while the input also holds an issue without story points
\* whose group sums to 0 and is left out.
C7_Witness ==
    /\ epic_pc = "done"
    /\ \E k \in DOMAIN epic_result :
         epic_result[k].epic_key = "No Epic" /\ epic_result[k].total_points >= 2
    /\ \E k \in DOMAIN issues :
         issues[k].points = NoPoints /\ GroupTotal(GroupOf(issues[k])) = 0

\* C8: every returned record has
\* total_points = done_points + in_progress_points + to_do_points.
C8_TotalIsSumOfBuckets ==
    epic_pc = "done" =>
      \A k \in DOMAIN epic_result :
        epic_result[k].total_points =
          epic_result[k].done_points + epic_result[k].in_progress_points
            + epic_result[k].to_do_points

\* C8 witness: a record fed by a Done issue, an In Progress issue and a
\* To Do issue, each with story points.
C8_Witness ==
    /\ epic_pc = "done"
    /\ \E k \in DOMAIN epic_result :
         /\ epic_result[k].done_points > 0
         /\ epic_result[k].in_progress_points > 0
         /\ epic_result[k].to_do_points > 0

\* C9: no returned record has total_points 0, and an epic group whose
\* issues sum to 0 story points has no record.
C9_NoZeroTotalRecord ==
    epic_pc = "done" =>
      /\ \A k \in DOMAIN epic_result : epic_result[k].total_points # 0
      /\ \A i \in DOMAIN issues :
           GroupTotal(GroupOf(issues[i])) = 0 =>
             \A k \in DOMAIN epic_result :
               epic_result[k].epic_key # GroupOf(issues[i])

\* C9 witness: the first issue's group sums to 0 and is left out, while
\* another group is returned.
C9_Witness ==
    /\ epic_pc = "done"
    /\ Len(issues) >= 2
    /\ GroupTotal(GroupOf(issues[1])) = 0
    /\ Len(epic_result) >= 1

\* C10: the returned list is in descending order of percentage.
C10_SortedByPercentageDescending ==
    epic_pc = "done" =>
      \A k \in DOMAIN epic_result :
        k > 1 =>
          epic_result[k - 1].percentage.num * epic_result[k].percentage.den
            >= epic_result[k].percentage.num * epic_result[k - 1].percentage.den

\* C10 witness: two records of different percentages, neither 0, the first
\* of which belongs to the group that was seen last in the input.
C10_Witness ==
    /\ epic_pc = "done"
    /\ Len(epic_result) = 2
    /\ Len(issues) = 3
    /\ epic_result[1].epic_key = GroupOf(issues[3])
    /\ epic_result[1].epic_key # GroupOf(issues[1])
    /\ epic_result[2].percentage.num > 0
    /\ epic_result[1].percentage.num * epic_result[2].percentage.den
         > epic_result[2].percentage.num * epic_result[1].percentage.den

\* C11: every returned record has percentage = done_points / total_points
\* * 100, and the sprint of Epic A (5 points Done, 5 points In Progress) and
\* Epic B (0 points) yields exactly the record of Epic A with 5 / 5 / 0
\* points, total 10 and percentage 50.
C11_PercentageOfDone ==
    epic_pc = "done" =>
      /\ \A k \in DOMAIN epic_result :
           epic_result[k].percentage.num * epic_result[k].total_points
             = epic_result[k].done_points * 100 * epic_result[k].percentage.den
      /\ issues = ScenarioIssues =>
           /\ Len(epic_result) = 1
           /\ epic_result[1].epic_key = "EPIC-A"
           /\ epic_result[1].done_points = 5
           /\ epic_result[1].in_progress_points = 5
           /\ epic_result[1].to_do_points = 0
           /\ epic_result[1].total_points = 10
           /\ epic_result[1].percentage.num = 50 * epic_result[1].percentage.den

\* C11 witness: calculate_epic_progress has returned for the scenario sprint.
C11_Witness ==
    /\ epic_pc = "done"
    /\ issues = ScenarioIssues
    /\ Len(epic_result) = 1

\* the position at which an epic group is first seen in the input
FirstSeen(group) ==
    CHOOSE k \in DOMAIN issues :
      /\ GroupOf(issues[k]) = group
      /\ \A j \in 1..(k - 1) : GroupOf(issues[j]) # group

\* C14: calculate_sprint_composition returns one record per epic group of a
\* non-zero point total, in the order in which the groups were first seen;
\* each percentage is total_points / sprint total * 100, and the
\* total_points of the records sum to the sprint total.
C14_CompositionOfSprint ==
    epic_pc = "composed" =>
      /\ {comp_result[k].epic_key : k \in DOMAIN comp_result}
           = {GroupOf(issues[i]) : i \in
                {j \in DOMAIN issues : GroupTotal(GroupOf(issues[j])) # 0}}
      /\ \A j, k \in DOMAIN comp_result :
           j < k => FirstSeen(comp_result[j].epic_key)
                      < FirstSeen(comp_result[k].epic_key)
      /\ \A k \in DOMAIN comp_result :
           /\ comp_result[k].total_points = GroupTotal(comp_result[k].epic_key)
           /\ comp_result[k].percentage.num * SumPoints(issues)
                = comp_result[k].total_points * 100
                    * comp_result[k].percentage.den
      /\ SumTotals(comp_result) = SumPoints(issues)

\* C14 witness: two groups are returned, the first seen first, from an input
\* that also holds an issue without story points.
C14_Witness ==
    /\ epic_pc = "composed"
    /\ Len(comp_result) = 2
    /\ Len(issues) = 3
    /\ comp_result[1].epic_key = GroupOf(issues[1])
    /\ comp_result[2].epic_key = GroupOf(issues[3])
    /\ \E k \in DOMAIN issues : issues[k].points = NoPoints

(***************************************************************************)
(* Properties of the story points of one issue                             *)
(***************************************************************************)
\* the two-field precedence: both absent 0, both present the primary field,
\* exactly one present that one
Precedence(fields) ==
    CASE fields.points = NoPoints /\ fields.estimate = NoPoints -> 0
      [] fields.points # NoPoints /\ fields.estimate # NoPoints -> fields.points
      [] fields.points # NoPoints /\ fields.estimate = NoPoints -> fields.points
      [] OTHER -> fields.estimate

\* C12: get_story_points returns 0 when both fields are absent, the primary
\* field when both are present, and the present one when exactly one is.
C12_StoryPointsPrecedence ==
    (fn_pc = "done" /\ fn_output.fn = "get_story_points") =>
       fn_output.value = Precedence(fn_input)

\* C12 witness: both fields present with different values, the primary one
\* returned.
C12_Witness ==
    /\ fn_pc = "done"
    /\ fn_output.fn = "get_story_points"
    /\ fn_input.points # NoPoints
    /\ fn_input.estimate # NoPoints
    /\ fn_input.points # fn_input.estimate
    /\ fn_output.value = fn_input.points

\* C13: the story points calculate_epic_progress and
\* calculate_sprint_composition add for an issue follow the two-field
\* precedence, i.e. equal get_story_points of the issue's fields.
C13_AggregatedFollowsPrecedence ==
    (fn_pc = "done" /\ fn_output.fn = "aggregate") =>
       /\ fn_output.progress = Precedence(fn_input)
       /\ fn_output.composition = Precedence(fn_input)
       /\ fn_output.progress = get_story_points(fn_input)
       /\ fn_output.composition = get_story_points(fn_input)

(***************************************************************************)
(* Properties of the sprint-reference normalization                        *)
(***************************************************************************)
Complete(ref) == ref.present = SprintKeys

\* C15: the same complete sprint reference yields the same list of records
\* whether it is delivered as a list of objects, one object or a string.
C15_ShapeInvariant ==
    (fn_pc = "done" /\ fn_input.response = "200" /\ Complete(fn_input.ref)) =>
       \A shape \in {"list_of_dicts", "single_dict", "string"} :
          get_issue_sprints("200", FieldValue(fn_input.ref, shape)) = fn_output

\* C16 as stated: a reference lacking any of id, name, state still yields a
\* record, with "Unknown" for each missing field.
C16_RecordForEveryReference ==
    (fn_pc = "done" /\ fn_input.response = "200") =>
       /\ Len(fn_output) = 1
       /\ \A key \in SprintKeys \ fn_input.ref.present :
             IF key = "id" THEN fn_output[1].id = StrValue(Unknown)
             ELSE fn_output[1][key] = Unknown

\* C16 amended: a reference that has an id yields one record, with "Unknown"
\* for a missing name and for a missing state; a reference without an id
\* yields no record.
C16_UnknownForMissingNameOrState ==
    (fn_pc = "done" /\ fn_input.response = "200") =>
       IF "id" \in fn_input.ref.present
       THEN /\ Len(fn_output) = 1
            /\ fn_output[1].id.v = Decimal(fn_input.ref.id)
            /\ \A key \in {"name", "state"} \ fn_input.ref.present :
                  fn_output[1][key] = Unknown
       ELSE fn_output = <<>>

\* C16 witness: a string reference with an id and neither name nor state has
\* produced a record with both set to "Unknown".
C16_Witness ==
    /\ fn_pc = "done"
    /\ fn_input.response = "200"
    /\ fn_input.shape = "string"
    /\ fn_input.ref.present = {"id"}
    /\ Len(fn_output) = 1
    /\ fn_output[1].name = Unknown
    /\ fn_output[1].state = Unknown

(***************************************************************************)
(* Properties of the timestamp fix and of the worklog date filter          *)
(***************************************************************************)
Fixed == fn_pc \in {"fixed", "done"} /\ Len(fn_input.started) >= MinFixLen

\* the text without its character at position p
Without(text, p) == SubSeq(text, 1, p - 1) \o SubSeq(text, p + 1, Len(text))

\* C17: the fix puts a colon before the last two characters of a timestamp
\* that has none there, leaves one that has it unchanged, and applied to
\* its own output changes nothing, for every text of length at least 3.
C17_FixInsertsColonOnce ==
    Fixed =>
       LET before == fn_input.started
           after == fn_output.worklog_started_str
       IN  /\ before[Len(before) - 2] = ":" => after = before
           /\ before[Len(before) - 2] # ":" =>
                 /\ Len(after) = Len(before) + 1
                 /\ after[Len(after) - 2] = ":"
                 /\ Without(after, Len(after) - 2) = before
           /\ before = ExampleNoColon => after = ExampleColon
           /\ FixTimezone(after) = after

\* C17 witness: the fix has turned '2024-01-15T10:00:00+0500' into
\* '2024-01-15T10:00:00+05:00'.
C17_Witness ==
    /\ fn_pc = "fixed"
    /\ fn_input.started = ExampleNoColon
    /\ fn_output.worklog_started_str = ExampleColon

Filtered == fn_pc = "done" /\ fn_input.stamp # <<>>

\* C18: a worklog passes the date filter iff the calendar date of its start
\* timestamp in the timestamp's own offset lies in [start_date, end_date],
\* and its startedDate is that date; 2024-03-31T23:59:59-08:00 is left out
\* of 2024-04-01..2024-04-30.
C18_OwnOffsetDateInWindow ==
    Filtered =>
       LET stamp == fn_input.stamp[1]
       IN  /\ fn_output.raised = None
           /\ fn_output.kept <=>
                 /\ DateLeq(DateOf(fn_input.start_date), stamp.date)
                 /\ DateLeq(stamp.date, DateOf(fn_input.end_date))
           /\ fn_output.startedDate = DateText(stamp.date)
           /\ (/\ stamp.date = <<2024, 3, 31>>
               /\ stamp.hour = 23
               /\ stamp.offset.sign = "-" /\ stamp.offset.hh = 8
               /\ fn_input.start_date = DateText(<<2024, 4, 1>>)
               /\ fn_input.end_date = DateText(<<2024, 4, 30>>))
                 => ~fn_output.kept

\* C18 witness: the worklog started 2024-03-31T23:59:59-08:00 has been
\* filtered against 2024-04-01..2024-04-30 and is not kept.
C18_Witness ==
    /\ Filtered
    /\ fn_input.started = StampText([date |-> <<2024, 3, 31>>, hour |-> 23,
                                     offset |-> [sign |-> "-", hh |-> 8,
                                                 mm |-> 0],
                                     millis |-> FALSE, colon |-> TRUE])
    /\ fn_input.start_date = DateText(<<2024, 4, 1>>)
    /\ fn_input.end_date = DateText(<<2024, 4, 30>>)
    /\ ~fn_output.kept
    /\ fn_output.startedDate = DateText(<<2024, 3, 31>>)

(***************************************************************************)
(* Properties of the issue resolution of get_all_worklogs_in_date_range    *)
(***************************************************************************)
RECURSIVE RequestsUpTo(_)
\* the issue-detail requests made for the issues 1..n
RequestsUpTo(n) == IF n = 0 THEN 0 ELSE issueRequests[n] + RequestsUpTo(n - 1)

DistinctIssueIds == {IssueOf(w) : w \in Elems(filtered_worklogs)}

\* the primary path has run the issue loop to its end
PrimaryCompleted ==
    /\ op = "worklogs"
    /\ pc = "done"
    /\ ~fallbackRan
    /\ filtered_worklogs # <<>>

OfTargetProject(w) ==
    /\ issue_project[IssueOf(w)] # None
    /\ Upper(issue_project[IssueOf(w)]) = Upper(project_key)

OfOtherProject(w) ==
    /\ issue_project[IssueOf(w)] # None
    /\ Upper(issue_project[IssueOf(w)]) # Upper(project_key)

\* C20: every worklog the primary path returns belongs to an issue whose
\* project key equals the requested key up to case; the worklogs of issues
\* of another project are left out and the result is still a list.
C20_ReturnedWorklogsInTargetProject ==
    (op = "worklogs" /\ pc = "done" /\ ~fallbackRan) =>
       /\ result.kind = "list"
       /\ \A w \in Elems(result.items) : OfTargetProject(w)
       /\ \A w \in Elems(filtered_worklogs) :
             OfOtherProject(w) => w \notin Elems(result.items)

\* C20 witness: the primary path has returned a worklog of an issue whose
\* key differs from the requested one in case only, and left out a filtered
\* worklog of an issue of another project.
C20_Witness ==
    /\ PrimaryCompleted
    /\ \E w \in Elems(result.items) :
          issue_project[IssueOf(w)] \notin {None, project_key}
    /\ \E w \in Elems(filtered_worklogs) :
          OfOtherProject(w) /\ w \notin Elems(result.items)

(***************************************************************************)
(* Properties of the comment filter                                        *)
(***************************************************************************)
\* the instant the server's timestamp denotes, in minutes of UTC counted
\* from 00:00 of the timestamp's own date
UtcMinutes(stamp) ==
    stamp.hour * 60 + 59
       - (IF stamp.offset.sign = "-" THEN -1 ELSE 1)
           * (stamp.offset.hh * 60 + stamp.offset.mm)

\* the UTC date of the instant
UtcDate(stamp) ==
    IF UtcMinutes(stamp) < 0 THEN PrevDay(stamp.date)
    ELSE IF UtcMinutes(stamp) >= 24 * 60 THEN NextDay(stamp.date)
    ELSE stamp.date

\* C21: a comment is returned iff its creation instant, converted to UTC,
\* lies between start_date 00:00:00 UTC and end_date 23:59:59 UTC inclusive,
\* whatever offset it was written in.
C21_CommentKeptIffUtcInstantInWindow ==
    (fn_pc = "done" /\ fn_input.stamp # <<>>) =>
       LET stamp == fn_input.stamp[1]
       IN  fn_output.kept <=>
              /\ DateLeq(DateOf(fn_input.start_date), UtcDate(stamp))
              /\ DateLeq(UtcDate(stamp), DateOf(fn_input.end_date))

\* C21 witness: a comment written at 00:59:59+05:30 on the first day of the
\* window, which is the day before in UTC, has been dropped.
C21_Witness ==
    /\ fn_pc = "done"
    /\ fn_input.stamp # <<>>
    /\ fn_input.stamp[1].hour = 0
    /\ fn_input.stamp[1].offset.hh = 5
    /\ DateText(fn_input.stamp[1].date) = fn_input.start_date
    /\ ~fn_output.kept

(***************************************************************************)
(* Properties of parse_adf_to_text                                         *)
(***************************************************************************)
\* the positions <<block, item>> of the text nodes directly inside
\* paragraph blocks
TextNodes(content) ==
    {pos \in (DOMAIN content) \X (1..2) :
        /\ content[pos[1]].type = "paragraph"
        /\ pos[2] \in DOMAIN content[pos[1]].content
        /\ content[pos[1]].content[pos[2]].type = "text"}

Before(p, q) == p[1] < q[1] \/ (p[1] = q[1] /\ p[2] < q[2])

RECURSIVE InDocumentOrder(_, _)
\* the texts of a set of positions, earliest position first
InDocumentOrder(content, nodes) ==
    IF nodes = {} THEN <<>>
    ELSE LET first == CHOOSE p \in nodes : \A q \in nodes \ {p} : Before(p, q)
         IN  <<content[first[1]].content[first[2]].text>>
                \o InDocumentOrder(content, nodes \ {first})

RECURSIVE SpaceSeparated(_)
\* the texts with one space between neighbours
SpaceSeparated(texts) ==
    IF texts = <<>> THEN <<>>
    ELSE IF Len(texts) = 1 THEN texts[1]
    ELSE SpaceSeparated(SubSeq(texts, 1, Len(texts) - 1))
            \o <<" ">> \o texts[Len(texts)]

\* C22: for a document the result is the text of the text nodes directly
\* inside paragraph blocks, in document order, separated by single spaces;
\* for any other value it is the value's string form, a plain string
\* unchanged.
C22_ParagraphTextsJoined ==
    fn_pc = "done" =>
       /\ fn_input.kind = "doc" =>
             fn_output = SpaceSeparated(
                 InDocumentOrder(fn_input.content, TextNodes(fn_input.content)))
       /\ fn_input.kind = "str" => fn_output = fn_input.chars
       /\ fn_input.kind = "None" => fn_output = NoneText
       /\ fn_input.kind = "dict" => fn_output = EmptyDictText

\* C22 witness: a document of a heading that holds text and a paragraph of
\* two text nodes has been reduced to the paragraph's two texts.
C22_Witness ==
    /\ fn_pc = "done"
    /\ fn_input.kind = "doc"
    /\ Len(fn_input.content) = 2
    /\ fn_input.content[1].type = "heading"
    /\ fn_input.content[1].content # <<>>
    /\ fn_input.content[1].content[1].type = "text"
    /\ fn_input.content[2].type = "paragraph"
    /\ Len(fn_input.content[2].content) = 2
    /\ fn_output = <<"b", "c", " ", "a">>

(***************************************************************************)
(* Properties of the failures of the worklog filter                        *)
(***************************************************************************)
\* C23: a start timestamp that cannot be parsed after the fix ends the
\* worklog extraction with the tagged error value.
C23_ParseFailureGivesErrorValue ==
    (fn_pc = "done" /\ fn_output.raised = "ValueError") =>
       fn_output.outcome = "error_value"

\* C28: the fallback filters a worklog as the primary path does: a worklog
\* with a start timestamp is kept iff the timestamp's own-offset date lies
\* in the window, and a worklog without a start timestamp is skipped.
C28_FallbackFiltersLikePrimary ==
    (fn_pc = "done" /\ fn_input.path = "fallback") =>
       /\ fn_input.stamp # <<>> =>
             /\ fn_output.raised = None
             /\ fn_output.kept <=>
                   /\ DateLeq(DateOf(fn_input.start_date),
                              fn_input.stamp[1].date)
                   /\ DateLeq(fn_input.stamp[1].date,
                              DateOf(fn_input.end_date))
       /\ fn_input.started = <<>> =>
             /\ fn_output.raised = None
             /\ ~fn_output.kept
             /\ fn_output.outcome = "continues"

(***************************************************************************)
(* Properties of the orchestrator                                          *)
(***************************************************************************)
Succeeded(category) == fn_output[category] = "list"
Failed(category) == fn_output[category] = "error"

\* C24: when a category's fetch returns the error value after an earlier
\* category was fetched, the run still saves the report: it never ends
\* unsaved with one category fetched and a later one failed.
C24_FailedCategoryDoesNotStopTheRun ==
    \A k \in 1..3 : \A j \in 1..(k - 1) :
       (Succeeded(Categories3[j]) /\ Failed(Categories3[k])) =>
          (fn_pc = "returned" => fn_output.saved)

Malformed(date) == date = "2024-13-45"

StartAfterEnd ==
    fn_input.start_date = "2024-04-30" /\ fn_input.end_date = "2024-04-01"

DateValidationFails ==
    \/ Malformed(fn_input.start_date) \/ Malformed(fn_input.end_date)
    \/ (fn_input.start_date # "") # (fn_input.end_date # "")
    \/ StartAfterEnd

\* C25: when date validation fails (a malformed date, one date of the pair,
\* start after end) no fetch is issued and no report is written.
C25_InvalidDatesStopBeforeAnyFetch ==
    DateValidationFails =>
       /\ fn_output.requests = <<>>
       /\ ~fn_output.saved

\* C26: with a credential missing no request reaches the upstream API and
\* the run ends with a configuration error.
C26_MissingCredentialsStopBeforeNetwork ==
    fn_input.credentials # Credentials =>
       /\ fn_output.network = <<>>
       /\ fn_pc = "returned" => fn_output.raised = "ConfigurationError"

(***************************************************************************)
(* Properties of the batch loop                                            *)
(***************************************************************************)
\* C27: every batch request carries between 1 and 1000 ids, the batches
\* sent so far are the id list up to the loop index in its order, and once
\* the loop has ended they are the whole list, each id sent once.
C27_BatchesPartitionIds ==
    (op = "worklogs" /\ ~fallbackRan) =>
       /\ pc = "batch" =>
             /\ batch_i % batch_size = 0
             /\ batch_i < Len(ids)
             /\ Len(Batch(batch_i)) \in 1..batch_size
             /\ all_worklogs_raw = SubSeq(ids, 1, batch_i)
       /\ (pc = "done" /\ ids # <<>>) =>
             /\ all_worklogs_raw = ids
             /\ batch_i >= Len(ids)
             /\ batch_i - batch_size < Len(ids)

\* C27 witness: three batches have carried 2001 ids, the last batch one id.
C27_Witness ==
    /\ pc = "done"
    /\ ~fallbackRan
    /\ Len(ids) = 2 * batch_size + 1
    /\ batch_i = 3 * batch_size
    /\ all_worklogs_raw = ids

(***************************************************************************)
(* Termination of paginate_request                                         *)
(***************************************************************************)
\* every request carries the number of items accumulated so far; a request
\* that is followed by another received a non-empty page and moved the
\* offset by its length; an empty page ends the loop
PaginateProgress ==
    /\ pc = "paginate" => start_at = Len(all_results)
    /\ \A k \in DOMAIN reqLog :
          /\ reqLog[k].offset = reqLog[k].have
          /\ k < Len(reqLog) =>
                /\ reqLog[k].n > 0
                /\ reqLog[k + 1].offset = reqLog[k].offset + reqLog[k].n
          /\ reqLog[k].n = 0 => (k = Len(reqLog) /\ pc # "paginate")

\* C29: paginate_request terminates against a server that answers every
\* request with a finite total: every iteration stops or moves the offset
\* forward by the non-zero number of items received, an empty page stops
\* the loop, the offset sent is the number of items accumulated so far,
\* and the call returns.
C29_PaginateTerminates == []PaginateProgress /\ <>(pc = "done")

\* C29 witness: a call has returned after three requests, the last one
\* answered with an empty page.
C29_Witness ==
    /\ pc = "done"
    /\ Len(reqLog) = 3
    /\ reqLog[3].n = 0
    /\ reqLog[3].offset = 2 * max_results

(***************************************************************************)
(* Properties of the heartbeat start                                       *)
(***************************************************************************)
\* C30: of the page loads that run start_heartbeat_thread_once at most one
\* starts a monitoring thread.
C30_AtMostOneMonitoringThread == Cardinality(fn_output.threads) <= 1

====
